---- MODULE Spec2Model ----
(***************************************************************************)
(* Model of the Terraform clean-up pipeline and of the request handlers of *)
(* the diagram-to-Terraform server (the server source is the listing in    *)
(* src/README.md, lines 144-662).                                          *)
(*                                                                         *)
(* A text is a sequence of lexemes.  The characters the regular            *)
(* expressions of the server distinguish are lexemes of their own:         *)
(*   "LB" = {   "RB" = }   "Q" = "   "BS" = \   "DOL" = $   "EQ" = =       *)
(*   "NL" = line feed   "SP" = one blank                                   *)
(* every other lexeme is an opaque word (a run of characters that holds no *)
(* blank, quote, brace, dollar, equals sign or line feed), matched by the  *)
(* literal words of the expressions.  A declaration header                 *)
(* (resource "local_file" "a") is one word.  The alignment padding the     *)
(* server writes between an attribute name and "=" is one "SP".            *)
(***************************************************************************)
EXTENDS Integers, Sequences, FiniteSets, TLC

VARIABLES
    \* ---- the clean-up pipeline run on one generated text
    provider,           \* cloudProvider of the run
    input,              \* the text the last run started from (terraformCode)
    text,               \* cleanedTerraform
    stage,              \* how far the run has come
    \* ---- the server
    lastGeneratedCode,  \* README.md:161
    lastTfFilePath,     \* README.md:162
    files,              \* the .tf files written: files[path] is the content
    reqs                \* the requests received, in order of arrival

pipeVars == <<provider, input, text, stage>>
srvVars == <<lastGeneratedCode, lastTfFilePath, files, reqs>>
vars == <<provider, input, text, stage, lastGeneratedCode, lastTfFilePath, files, reqs>>

supportedProviders == {"aws", "azure", "gcp"}

----------------------------------------------------------------------------
(* Lexemes, positions and String.prototype.replace *)

IsSpace(c) == c \in {"SP", "NL"}

Max(a, b) == IF a >= b THEN a ELSE b

\* t[i..j], empty when j < i
Sub(t, i, j) == IF j < i THEN <<>> ELSE SubSeq(t, i, j)

\* position i of t holds lexeme c
Is(t, i, c) == i >= 1 /\ i <= Len(t) /\ t[i] = c

\* the least and the greatest member of a set of positions, 0 when the set
\* is empty: the leftmost match of an expression, the last index of a lexeme
MinOf(S) == IF S = {} THEN 0 ELSE CHOOSE x \in S : \A y \in S : x <= y

MaxOf(S) == IF S = {} THEN 0 ELSE CHOOSE x \in S : \A y \in S : x >= y

\* n, or d when n is 0 (no position)
OrElse(n, d) == IF n = 0 THEN d ELSE n

\* first position >= i that holds no white space (Len(t)+1 when none): \s*
SkipSpace(t, i) ==
    IF i > Len(t) THEN i
    ELSE MinOf({j \in i..(Len(t) + 1) :
                   /\ j = Len(t) + 1 \/ ~IsSpace(t[j])
                   /\ \A m \in i..(j - 1) : IsSpace(t[m])})

\* first position >= i of lexeme c, 0 when there is none
IndexFrom(t, c, i) == MinOf({j \in i..Len(t) : t[j] = c})

\* last position <= i of lexeme c, 0 when there is none
LastIndexUpTo(t, c, i) == MaxOf({j \in 1..i : j <= Len(t) /\ t[j] = c})

\* first position >= i of a line feed, Len(t)+1 when the line is the last
LineEnd(t, i) == OrElse(IndexFrom(t, "NL", i), Max(i, Len(t) + 1))

\* String.prototype.trim
Trim(t) ==
    Sub(t, SkipSpace(t, 1),
        MaxOf({j \in 1..Len(t) :
                  ~IsSpace(t[j]) /\ \A m \in (j + 1)..Len(t) : IsSpace(t[m])}))

\* String.prototype.replace with a g expression.  ends[q] is the last
\* position of the expression's match tried at position q (0: no match
\* there) and repls[q] what replaces that match.  The leftmost match from
\* position i on is replaced, then the search goes on after it.
RECURSIVE ReplaceFrom(_, _, _, _)
ReplaceAt(t, ends, repls, i, s) ==
    IF s = 0 THEN Sub(t, i, Len(t))
    ELSE Sub(t, i, s - 1) \o repls[s] \o ReplaceFrom(t, ends, repls, ends[s] + 1)

ReplaceFrom(t, ends, repls, i) ==
    ReplaceAt(t, ends, repls, i, MinOf({q \in i..Len(t) : ends[q] > 0}))

ReplaceAll(t, ends, repls) == ReplaceFrom(t, ends, repls, 1)

\* the same replacement for every match
Always(t, r) == [q \in 1..Len(t) |-> r]

\* \s*=\s* tried at position j: the first position after it, 0 when there
\* is no "=" there
AfterEquals(t, j) == IF Is(t, j, "EQ") THEN SkipSpace(t, j + 1) ELSE 0

\* NAME\s*=\s* tried at position i: the first position after it, 0 when
\* it does not match
AssignAt(t, name, i) ==
    IF Is(t, i, name) THEN AfterEquals(t, SkipSpace(t, i + 1)) ELSE 0

----------------------------------------------------------------------------
(* Generic clean-ups, README.md:382-396 *)

LocalFileHeaders == {"resource_local_file_a", "resource_local_file_b"}

ArchiveFileHeaders == {"data_archive_file_z"}

\* {[^}]*} tried at position j: the position of the first closing brace
\* after the opening one, 0 when the expression does not match
BraceToFirstClose(t, j) == IF Is(t, j, "LB") THEN IndexFrom(t, "RB", j + 1) ELSE 0

\* /HEADER\s*{[^}]*}/s tried at position i: the position of the closing
\* brace of the match, 0 when the expression does not match at i
BlockMatchEnd(t, hdrs, i) ==
    IF t[i] \in hdrs THEN BraceToFirstClose(t, SkipSpace(t, i + 1)) ELSE 0

\* text.replace(/resource\s+"local_file"\s+"[^"]+"\s*{[^}]*}/gs, '')
RemoveLocalFile(t) ==
    ReplaceAll(t, [q \in 1..Len(t) |-> BlockMatchEnd(t, LocalFileHeaders, q)],
               Always(t, <<>>))

\* the archive_file removal written with the expression of the local_file
\* removal
RemoveArchiveFileAsLocalFile(t) ==
    ReplaceAll(t, [q \in 1..Len(t) |-> BlockMatchEnd(t, LocalFileHeaders, q)],
               Always(t, <<>>))

\* text.replace(/data\s+"archive_file"\s+"[^"]+"\s*{[^}]*}/gs, '')
RemoveArchiveFile(t) ==
    ReplaceAll(t, [q \in 1..Len(t) |-> BlockMatchEnd(t, ArchiveFileHeaders, q)],
               Always(t, <<>>))

\* \)\n? with c the last ")" of the line of the call that starts at k
HashParenEnd(t, k, c) ==
    IF c <= k THEN 0 ELSE IF Is(t, c + 1, "NL") THEN c + 1 ELSE c

\* filebase64sha256\(.*\)\n? tried at position k: ".*\)" runs to the last
\* ")" of the line, and a line feed right after it is taken too
HashCallEnd(t, k) ==
    IF Is(t, k, "filebase64sha256(")
    THEN HashParenEnd(t, k, LastIndexUpTo(t, ")", LineEnd(t, k + 1) - 1))
    ELSE 0

\* /source_code_hash\s*=\s*filebase64sha256\(.*\)\n?/ tried at position i:
\* the last position of the match, 0 when there is none
HashMatchEnd(t, i) == HashCallEnd(t, AssignAt(t, "source_code_hash", i))

\* text.replace(/source_code_hash\s*=\s*filebase64sha256\(.*\)\n?/g, '')
RemoveSourceCodeHash(t) ==
    ReplaceAll(t, [q \in 1..Len(t) |-> HashMatchEnd(t, q)], Always(t, <<>>))

GenericCleanups(t) == RemoveSourceCodeHash(RemoveArchiveFile(RemoveLocalFile(t)))

----------------------------------------------------------------------------
(* Final general clean-ups, README.md:527-540 *)

\* the end of a match that may give white space back to the line feed at n
\* but must keep the positions before `least`
BackTo(n, least) == IF n >= least THEN n - 1 ELSE 0

\* \s*$ under the m flag, tried at position j with k the first position
\* after the white run: "\s*" gives white space back until "$" stands at
\* the end of the text or before a line feed
SpaceToLineEnd(t, j, k) ==
    IF k > Len(t) THEN Len(t) ELSE BackTo(LastIndexUpTo(t, "NL", k - 1), j)

\* /\$\{path\.module\s*$/m tried at position i: the last position of the
\* match, 0 when there is none
PathModuleMatchEnd(t, i) ==
    IF Is(t, i, "DOL") /\ Is(t, i + 1, "LB") /\ Is(t, i + 2, "path.module")
    THEN SpaceToLineEnd(t, i + 3, SkipSpace(t, i + 3))
    ELSE 0

\* .replace(/\$\{path\.module\s*$/gm, '${path.module}')
FixPathModule(t) ==
    ReplaceAll(t, [q \in 1..Len(t) |-> PathModuleMatchEnd(t, q)],
               Always(t, <<"DOL", "LB", "path.module", "RB">>))

\* [^}]+\n with n the last line feed before the next "}": the line feed
\* ends the match when a character stands between "${" and it
InterpLineFeed(i, n) == IF n >= i + 3 THEN n ELSE 0

\* /\$\{([^}]+)\n/ tried at position i: the position of the line feed that
\* ends the match, 0 when there is none.  "[^}]+" runs over line feeds up to
\* the next "}" (or the end) and gives back to the last line feed.
InterpMatchEnd(t, i) ==
    IF Is(t, i, "DOL") /\ Is(t, i + 1, "LB")
    THEN InterpLineFeed(i, LastIndexUpTo(t, "NL",
                               OrElse(IndexFrom(t, "RB", i + 2), Len(t) + 1) - 1))
    ELSE 0

\* (_, expr) => `\${${expr.trim()}}` for the matches that end at ends[q]
CloseInterpolation(t, ends) ==
    [q \in 1..Len(t) |->
        IF ends[q] > 0
        THEN <<"DOL", "LB">> \o Trim(Sub(t, q + 2, ends[q] - 1)) \o <<"RB">>
        ELSE <<>>]

FixInterpolationAt(t, ends) == ReplaceAll(t, ends, CloseInterpolation(t, ends))

\* .replace(/\$\{([^}]+)\n/g, (_, expr) => `\${${expr.trim()}}`)
FixInterpolation(t) ==
    FixInterpolationAt(t, [q \in 1..Len(t) |-> InterpMatchEnd(t, q)])

\* the white run from the line feed at i to k - 1 is a match when it holds
\* a second line feed
BlankRunOver(t, i, k) == IF LastIndexUpTo(t, "NL", k - 1) > i THEN k - 1 ELSE 0

\* /(\n\s*){2,}/ tried at position i: the last position of the match, 0 when
\* there is none
BlankRunEnd(t, i) ==
    IF t[i] = "NL" THEN BlankRunOver(t, i, SkipSpace(t, i)) ELSE 0

\* .replace(/(\n\s*){2,}/g, '\n\n')
CollapseBlankLines(t) ==
    ReplaceAll(t, [q \in 1..Len(t) |-> BlankRunEnd(t, q)], Always(t, <<"NL", "NL">>))

RepairSyntax(t) == Trim(CollapseBlankLines(FixInterpolation(FixPathModule(t))))

----------------------------------------------------------------------------
(* Helpers of the provider-specific rewrites, README.md:398-525 *)

\* x when it is a position, y otherwise: the first alternative that matches
FirstOf(x, y) == IF x > 0 THEN x ELSE y

\* the position q when it lies before the end e of the line
OnLine(q, e) == IF q > 0 /\ q < e THEN q ELSE 0

\* ".*?" tried at position k: the position of the closing quote, 0 when it
\* does not match (the value may not run over a line feed)
QuotedLineEnd(t, k) ==
    IF Is(t, k, "Q") THEN OnLine(IndexFrom(t, "Q", k + 1), LineEnd(t, k + 1)) ELSE 0

\* "[^"]*" tried at position k: the position of the closing quote, 0 when
\* it does not match (the value may run over line feeds)
QuotedEnd(t, k) == IF Is(t, k, "Q") THEN IndexFrom(t, "Q", k + 1) ELSE 0

\* the position n when it lies after position j
Past(n, j) == IF n > j THEN n ELSE 0

\* \s*= tried at position j: the position of the "=", 0 when none
EqualsAt(t, j) == IF Is(t, j, "EQ") THEN j ELSE 0

\* .*?\n after the "=" at position j, with k the first position after the
\* white space that follows it: the line feed that ends the line of the
\* value; when no line feed follows the value, the "\s*" after "=" gives
\* back to the last line feed it took
AttrValueEnd(t, j, k) ==
    FirstOf(IndexFrom(t, "NL", k), Past(LastIndexUpTo(t, "NL", k - 1), j))

AttrAfterEquals(t, j) == IF j = 0 THEN 0 ELSE AttrValueEnd(t, j, SkipSpace(t, j + 1))

AttrAt(t, name, a) ==
    IF Is(t, a, name) THEN AttrAfterEquals(t, EqualsAt(t, SkipSpace(t, a + 1))) ELSE 0

\* /\s*NAME\s*=\s*.*?\n/ tried at position i: the position of the line feed
\* that ends the match, 0 when there is none
AttrLineEnd(t, name, i) == AttrAt(t, name, SkipSpace(t, i))

\* t.replace(/\s*NAME\s*=\s*.*?\n/g, '\n')
StripAttr(t, name) ==
    ReplaceAll(t, [q \in 1..Len(t) |-> AttrLineEnd(t, name, q)], Always(t, <<"NL">>))

\* the position after b, 0 when b is no position
After(b) == IF b = 0 THEN 0 ELSE b + 1

\* [\s\S]*?}\n tried at position i: the line feed after the first closing
\* brace that a line feed follows
BraceThenNewline(t, i) ==
    After(MinOf({j \in i..(Len(t) - 1) : t[j] = "RB" /\ t[j + 1] = "NL"}))

InlineCodeBody(t, j) == IF Is(t, j, "LB") THEN BraceThenNewline(t, j + 1) ELSE 0

InlineCodeAt(t, a) ==
    IF Is(t, a, "inline_code") THEN InlineCodeBody(t, SkipSpace(t, a + 1)) ELSE 0

\* /\s*inline_code\s*{[\s\S]*?}\n/ tried at position i: the position of the
\* line feed that ends the match, 0 when there is none
InlineCodeEnd(t, i) == InlineCodeAt(t, SkipSpace(t, i))

\* t.replace(/\s*inline_code\s*{[\s\S]*?}\n/g, '\n')
StripInlineCode(t) ==
    ReplaceAll(t, [q \in 1..Len(t) |-> InlineCodeEnd(t, q)], Always(t, <<"NL">>))

\* const blockContentIndent = originalIndent + '  ': the block handed to the
\* callback starts at the word "resource", so /^(\s*)resource/m matches at
\* its first character with an empty group and originalIndent is ''.
blockContentIndent == <<"SP", "SP">>

\* block.substring(0, at) + ins + block.substring(at), at counted from 0
InsertAfter(t, at, ins) == Sub(t, 1, at) \o ins \o Sub(t, at + 1, Len(t))

\* the insertion before the last closing brace, skipped when
\* lastIndexOf('}') is -1
InsertBeforeBrace(b, lastBraceIndex, ins) ==
    IF lastBraceIndex = 0 THEN b ELSE InsertAfter(b, lastBraceIndex - 1, ins)

\* /NAME\s*=\s*".*?"/ matches somewhere in b
HasQuotedAttr(b, name) ==
    \E p \in 1..Len(b) : QuotedLineEnd(b, AssignAt(b, name, p)) > 0

----------------------------------------------------------------------------
(* aws_lambda_function rewrite, README.md:399-455 *)

LambdaHeaders == {"resource_aws_lambda_function_f", "resource_aws_lambda_function_g"}

\* the words that start with python, node, go, java or ruby (README.md:411)
PythonRuntimes == {"python3.9", "python3.12"}

NodeRuntimes == {"nodejs18.x"}

OtherRuntimes == {"go1.x", "java17", "ruby3.2"}

KnownRuntimes == PythonRuntimes \cup NodeRuntimes \cup OtherRuntimes

\* the part of a word before its first '.', for the words that hold one
DotPrefix ==
    ("index.handler" :> "index") @@ ("handler.handler" :> "handler")
        @@ ("app.main" :> "app") @@ ("path.module" :> "path")
        @@ ("lambda.zip" :> "lambda")

\* value.split('.')[0]
RECURSIVE FirstDotPart(_)
FirstDotPart(v) ==
    IF v = <<>> THEN <<>>
    ELSE IF Head(v) \in DOMAIN DotPrefix THEN <<DotPrefix[Head(v)]>>
    ELSE <<Head(v)>> \o FirstDotPart(Tail(v))

\* "(python[^"]*|node[^"]*|go[^"]*|java[^"]*|ruby[^"]*)" tried at position k
RuntimeValueEnd(t, k) ==
    IF Is(t, k, "Q") /\ k + 1 <= Len(t) /\ t[k + 1] \in KnownRuntimes
    THEN IndexFrom(t, "Q", k + 1)
    ELSE 0

\* /runtime\s*=\s*"(python[^"]*|node[^"]*|go[^"]*|java[^"]*|ruby[^"]*)"/
\* tried at position i: the position of the closing quote, 0 when no match
RuntimeMatchEnd(t, i) == RuntimeValueEnd(t, AssignAt(t, "runtime", i))

\* runtimeMatch[1] of the match at position i, 'python3.9' when i is 0
RuntimeAt(b, i) ==
    IF i = 0 THEN <<"python3.9">>
    ELSE Sub(b, AssignAt(b, "runtime", i) + 1, RuntimeMatchEnd(b, i) - 1)

\* const runtime = runtimeMatch ? runtimeMatch[1] : 'python3.9'
RuntimeOf(b) == RuntimeAt(b, MinOf({p \in 1..Len(b) : RuntimeMatchEnd(b, p) > 0}))

\* /handler\s*=\s*"([^"]*)"/ tried at position i
HandlerMatchEnd(t, i) == QuotedEnd(t, AssignAt(t, "handler", i))

\* handlerMatch[1] of the match at position i, 'handler.handler' when i is 0
HandlerValueAt(b, i) ==
    IF i = 0 THEN <<"handler.handler">>
    ELSE Sub(b, AssignAt(b, "handler", i) + 1, HandlerMatchEnd(b, i) - 1)

\* const handlerValue = handlerMatch ? handlerMatch[1] : 'handler.handler'
HandlerValueOf(b) ==
    HandlerValueAt(b, MinOf({p \in 1..Len(b) : HandlerMatchEnd(b, p) > 0}))

\* placeholderCode for handlerFunctionName, README.md:418-425
PlaceholderFor(runtime, handlerValue, handlerFunctionName) ==
    IF runtime # <<>> /\ Head(runtime) \in NodeRuntimes
    THEN <<"exports.">> \o handlerFunctionName \o
         <<"SP", "EQ", "SP", "async (event", ")", "SP", "EQ", ">", "SP", "LB",
           "SP", "return", "SP", "LB", "SP",
           "statusCode: 200, body: JSON.stringify(", "BS", "Q", "OK", "BS", "Q",
           ")", "SP", "RB", ";", "SP", "RB", ";">>
    ELSE IF runtime # <<>> /\ Head(runtime) \in PythonRuntimes
    THEN <<"def", "SP">> \o handlerFunctionName \o
         <<"(event, context", ")", ": return", "SP", "LB",
           "BS", "Q", "statusCode", "BS", "Q", ": 200,", "SP",
           "BS", "Q", "body", "BS", "Q", ":", "SP", "BS", "Q", "OK", "BS", "Q",
           "RB">>
    ELSE <<"/* Placeholder code for", "SP">> \o handlerValue \o <<"SP", "*/">>

PlaceholderCode(runtime, handlerValue) ==
    PlaceholderFor(runtime, handlerValue, FirstDotPart(handlerValue))

\* /handler\s*=\s*".*?"/ matches somewhere in b
HasHandler(b) == HasQuotedAttr(b, "handler")

\* [^}\n]* tried at position kr: the last position before the next "}" or
\* line feed, 0 when kr is no position
RoleValueEnd(t, kr) ==
    IF kr = 0 THEN 0
    ELSE OrElse(MinOf({j \in kr..Len(t) : t[j] \in {"RB", "NL"}}), Len(t) + 1) - 1

FnNameOrRoleAt(t, a) ==
    FirstOf(QuotedLineEnd(t, AssignAt(t, "function_name", a)),
            RoleValueEnd(t, AssignAt(t, "role", a)))

\* /(\s*)(function_name\s*=\s*".*?"|\s*role\s*=\s*[^}\n]*)/ tried at
\* position i: the last position of the match, 0 when there is none
FnNameOrRoleEnd(t, i) == FnNameOrRoleAt(t, SkipSpace(t, i))

\* fnNameOrRoleLineMatch[1] || blockContentIndent
IndentOr(group1) == IF group1 = <<>> THEN blockContentIndent ELSE group1

\* `\n${currentLineIndent}handler          = "${handlerValue}"`
HandlerLine(currentLineIndent, handlerValue) ==
    <<"NL">> \o currentLineIndent
        \o <<"handler", "SP", "EQ", "SP", "Q">> \o handlerValue \o <<"Q">>

\* the insertion with i the position of fnNameOrRoleLineMatch, 0 when the
\* expression does not match
InsertHandlerAt(b, handlerValue, i) ==
    IF i = 0
    THEN InsertAfter(b, IndexFrom(b, "LB", 1), HandlerLine(blockContentIndent, handlerValue))
    ELSE InsertAfter(b, FnNameOrRoleEnd(b, i),
                     HandlerLine(IndentOr(Sub(b, i, SkipSpace(b, i) - 1)), handlerValue))

\* the handler line put after the function_name or role line, or after the
\* opening brace, README.md:431-442
InsertHandler(b, handlerValue) ==
    InsertHandlerAt(b, handlerValue,
                    MinOf({p \in 1..Len(b) : FnNameOrRoleEnd(b, p) > 0}))

\* <<EOF[\s\S]*?EOF tried at position k
HeredocEnd(t, k) == IF Is(t, k, "<<EOF") THEN IndexFrom(t, "EOF", k + 1) ELSE 0

\* (".*?"|<<EOF[\s\S]*?EOF) tried at position k
SourceValueEnd(t, k) == FirstOf(QuotedLineEnd(t, k), HeredocEnd(t, k))

\* /source_code\s*=\s*(".*?"|<<EOF[\s\S]*?EOF)/ matches somewhere in b
HasSourceCode(b) ==
    \E p \in 1..Len(b) : SourceValueEnd(b, AssignAt(b, "source_code", p)) > 0

\* the source_code line put before the last closing brace, README.md:444-451
InsertSourceCode(b, placeholderCode) ==
    InsertBeforeBrace(b, LastIndexUpTo(b, "RB", Len(b)),
        blockContentIndent \o <<"source_code", "SP", "EQ", "SP", "Q">>
            \o placeholderCode \o <<"Q", "NL">>)

\* README.md:444-451
EnsureSourceCode(b, placeholderCode) ==
    IF HasSourceCode(b) THEN b ELSE InsertSourceCode(b, placeholderCode)

\* README.md:431-442
EnsureHandler(b, handlerValue) ==
    IF HasHandler(b) THEN b ELSE InsertHandler(b, handlerValue)

\* README.md:427-451 with the values read from the block at README.md:411-425
AwsRewriteWith(lambdaBlock, runtime, handlerValue) ==
    EnsureSourceCode(
        EnsureHandler(StripInlineCode(StripAttr(lambdaBlock, "filename")), handlerValue),
        PlaceholderCode(runtime, handlerValue))

\* the callback of the aws_lambda_function replace, README.md:402-453
AwsRewriteBlock(lambdaBlock) ==
    AwsRewriteWith(lambdaBlock, RuntimeOf(lambdaBlock), HandlerValueOf(lambdaBlock))

----------------------------------------------------------------------------
(* google_cloud_function rewrite, README.md:456-495 *)

GcpHeaders == {"resource_google_cloud_function_f"}

\* a line put before the last closing brace of b, README.md:477-482, 485-490
InsertAttrLine(b, name, value) ==
    InsertBeforeBrace(b, LastIndexUpTo(b, "RB", Len(b)),
        blockContentIndent \o <<name, "SP", "EQ", "SP", "Q", value, "Q", "NL">>)

\* README.md:476-483 and 484-491
EnsureAttr(b, name, value) ==
    IF HasQuotedAttr(b, name) THEN b ELSE InsertAttrLine(b, name, value)

\* the callback of the google_cloud_function replace, README.md:459-493
GcpRewriteBlock(gcpFunctionBlock) ==
    EnsureAttr(
        EnsureAttr(
            StripAttr(StripAttr(StripAttr(StripAttr(gcpFunctionBlock,
                "source_repository"), "build_environment_variables"),
                "source_archive_bucket"), "source_archive_object"),
            "source_archive_url", "gs://your-dummy-gcp-bucket/dummy-function.zip"),
        "entry_point", "main")

----------------------------------------------------------------------------
(* azurerm_function_app rewrite, README.md:496-525 *)

AzureHeaders == {"resource_azurerm_function_app_f"}

\* "^" under the m flag
IsLineStart(t, i) == i = 1 \/ t[i - 1] = "NL"

\* \n? after the match that ends at q
WithLineFeed(t, q) == IF q > 0 /\ Is(t, q + 1, "NL") THEN q + 1 ELSE q

\* /^\s*NAME\s*=\s*".*?"\n?/m tried at position i: the last position of the
\* match, 0 when there is none
QuotedSettingEnd(t, name, i) ==
    IF IsLineStart(t, i)
    THEN WithLineFeed(t, QuotedLineEnd(t, AssignAt(t, name, SkipSpace(t, i))))
    ELSE 0

\* the position before k, 0 when k is no position
Before(k) == IF k = 0 THEN 0 ELSE k - 1

\* /^\s*NAME\s*=\s*.*?\n?/m tried at position i: the lazy ".*?" takes
\* nothing, so the match ends with the white space after "="
BareSettingEnd(t, name, i) ==
    IF IsLineStart(t, i) THEN Before(AssignAt(t, name, SkipSpace(t, i))) ELSE 0

\* t.replace(/^\s*NAME\s*=\s*".*?"\n?/gm, '')
StripQuotedSetting(t, name) ==
    ReplaceAll(t, [q \in 1..Len(t) |-> QuotedSettingEnd(t, name, q)], Always(t, <<>>))

\* t.replace(/^\s*NAME\s*=\s*.*?\n?/gm, '')
StripBareSetting(t, name) ==
    ReplaceAll(t, [q \in 1..Len(t) |-> BareSettingEnd(t, name, q)], Always(t, <<>>))

\* README.md:502-505
StripSettings(b) ==
    StripBareSetting(
        StripQuotedSetting(
            StripQuotedSetting(b, "WEBSITE_RUN_FROM_PACKAGE"),
            "FUNCTIONS_WORKER_RUNTIME"),
        "APPINSIGHTS_INSTRUMENTATIONKEY")

\* README.md:511-514
StripSettingsQuoted(b) ==
    StripQuotedSetting(
        StripQuotedSetting(
            StripQuotedSetting(b, "WEBSITE_RUN_FROM_PACKAGE"),
            "FUNCTIONS_WORKER_RUNTIME"),
        "APPINSIGHTS_INSTRUMENTATIONKEY")

\* the lexemes that do not end in a character of [a-zA-Z0-9_]
NonWordEnd ==
    {"LB", "RB", "Q", "BS", "DOL", "EQ", "NL", "SP", ")", ";", ">", "*/",
     "filebase64sha256(", "async (event", "(event, context", ": return",
     ": 200,", ":", "statusCode: 200, body: JSON.stringify(", "exports."}

\* /[a-zA-Z0-9_]+=/.test(t)
HasTightAssign(t) ==
    \E p \in 1..(Len(t) - 1) : t[p] \notin NonWordEnd /\ t[p + 1] = "EQ"

\* /(app_settings\s*=\s*{[\s\S]*?})/ tried at position i: the position of
\* the closing brace, 0 when there is none
AppSettingsEnd(t, i) == BraceToFirstClose(t, AssignAt(t, "app_settings", i))

\* README.md:515-518
KeepOrDrop(appSettingsBlock, cleanedAppSettings) ==
    IF Trim(cleanedAppSettings) = <<"app_settings", "SP", "EQ", "SP", "LB", "RB">>
          \/ ~HasTightAssign(cleanedAppSettings)
    THEN <<>>
    ELSE appSettingsBlock

\* the callback of the app_settings replace, README.md:510-519
AppSettingsRewrite(appSettingsBlock) ==
    KeepOrDrop(appSettingsBlock, StripSettingsQuoted(appSettingsBlock))

RewriteAppSettingsAt(t, ends) ==
    ReplaceAll(t, ends,
               [q \in 1..Len(t) |->
                   IF ends[q] > 0 THEN AppSettingsRewrite(Sub(t, q, ends[q])) ELSE <<>>])

\* t.replace(/(app_settings\s*=\s*{[\s\S]*?})/g, callback)
RewriteAppSettings(t) ==
    RewriteAppSettingsAt(t, [q \in 1..Len(t) |-> AppSettingsEnd(t, q)])

\* the callback of the azurerm_function_app replace, README.md:499-522
AzureRewriteBlock(azureFunctionBlock) ==
    RewriteAppSettings(StripSettings(azureFunctionBlock))

----------------------------------------------------------------------------
(* The provider-specific step and the whole clean-up, README.md:380-540 *)

ServerlessHeaders(p) ==
    CASE p = "aws" -> LambdaHeaders
      [] p = "gcp" -> GcpHeaders
      [] p = "azure" -> AzureHeaders
      [] OTHER -> {}

RewriteBlock(p, b) ==
    CASE p = "aws" -> AwsRewriteBlock(b)
      [] p = "gcp" -> GcpRewriteBlock(b)
      [] p = "azure" -> AzureRewriteBlock(b)
      [] OTHER -> b

RewriteBlocksAt(t, p, ends) ==
    ReplaceAll(t, ends,
               [q \in 1..Len(t) |->
                   IF ends[q] > 0 THEN RewriteBlock(p, Sub(t, q, ends[q])) ELSE <<>>])

\* text.replace(/(HEADER\s*{[\s\S]*?})/g, callback)
ProviderRewrite(t, p) ==
    RewriteBlocksAt(t, p, [q \in 1..Len(t) |-> BlockMatchEnd(t, ServerlessHeaders(p), q)])

\* the clean-up with the syntax repair run first instead of last
SanitizeRepairFirst(t, p) == ProviderRewrite(GenericCleanups(RepairSyntax(t)), p)

\* cleanedTerraform as written to the file, README.md:380-540
Sanitize(t, p) == RepairSyntax(ProviderRewrite(GenericCleanups(t), p))

----------------------------------------------------------------------------
(* The texts the generator may return: up to MaxFrags sections, each one   *)
(* of the declarations below (the shapes of src/generated/*.tf and of the  *)
(* prompts of README.md:241-283).                                          *)

MaxFrags == 2

Str(w) == <<"Q", w, "Q">>

\* one attribute line, indented by two blanks
Attr(name, value) == <<"SP", "SP", name, "SP", "EQ", "SP">> \o value \o <<"NL">>

Open(header) == <<header, "SP", "LB", "NL">>

Close == <<"RB", "NL">>

\* generated_5df60933.tf:15-28 with a one-line body, then :77-81
LocalFilePlain ==
    Open("resource_local_file_a")
        \o Attr("content", Str("print"))
        \o Attr("filename", Str("handler.py"))
        \o Close

ArchivePlain ==
    Open("data_archive_file_z")
        \o Attr("type", Str("zip"))
        \o Attr("source_file", <<"local_file.a.filename">>)
        \o Attr("output_path", Str("lambda.zip"))
        \o Close

\* generated_5df60933.tf:15-28: a heredoc that holds braces, and an
\* interpolation in a quoted string
LocalFileHeredoc ==
    Open("resource_local_file_b")
        \o Attr("content", <<"<<EOT">>)
        \o <<"return", "SP", "LB", "NL", "'statusCode': 200", "NL", "RB", "NL", "EOT", "NL">>
        \o Attr("filename", <<"Q", "DOL", "LB", "path.module", "RB", "/b.py", "Q">>)
        \o Close

\* a local_file whose closing brace the generator never wrote
LocalFileOpen ==
    Open("resource_local_file_a") \o Attr("content", Str("print"))

\* generated_5df60933.tf:285-298
LambdaFromArchive ==
    Open("resource_aws_lambda_function_f")
        \o Attr("function_name", Str("F"))
        \o Attr("handler", Str("index.handler"))
        \o Attr("runtime", Str("python3.9"))
        \o Attr("role", <<"aws_iam_role.r.arn">>)
        \o Attr("filename", <<"data.archive_file.z.output_path">>)
        \o Attr("source_code_hash", <<"data.archive_file.z.output_base64sha256">>)
        \o Close

\* a lambda with a nested block before its filename, no handler
LambdaNested ==
    Open("resource_aws_lambda_function_f")
        \o Attr("function_name", Str("F"))
        \o Attr("runtime", Str("nodejs18.x"))
        \o <<"SP", "SP", "environment", "SP", "LB", "NL">>
        \o <<"SP", "SP">> \o Attr("LOG", Str("debug"))
        \o <<"SP", "SP", "RB", "NL">>
        \o Attr("filename", Str("lambda.zip"))
        \o Attr("source_code_hash", <<"filebase64sha256(", "Q", "lambda.zip", "Q", ")">>)
        \o Close

\* a lambda that already has its inline source, as a quoted string
LambdaInline ==
    Open("resource_aws_lambda_function_g")
        \o Attr("function_name", Str("G"))
        \o Attr("handler", Str("app.main"))
        \o Attr("runtime", Str("go1.x"))
        \o Attr("source_code", Str("package main"))
        \o Close

\* a lambda that already has its inline source, as a heredoc ended by EOT
LambdaHeredoc ==
    Open("resource_aws_lambda_function_g")
        \o Attr("handler", Str("index.handler"))
        \o Attr("source_code", <<"<<EOT">>)
        \o <<"def index", "NL", "EOT", "NL">>
        \o Close

\* a lambda whose closing brace the generator never wrote
LambdaOpen ==
    Open("resource_aws_lambda_function_g")
        \o Attr("function_name", Str("G"))
        \o Attr("filename", Str("lambda.zip"))
        \o <<"NL">>

\* a declaration no stage is about
Bucket ==
    Open("resource_aws_s3_bucket_b")
        \o Attr("bucket", Str("assets"))
        \o Close

\* generated_5df60933.tf:105-120: a blank line between two attributes
BucketSpaced ==
    Open("resource_aws_s3_bucket_b")
        \o Attr("bucket", Str("assets"))
        \o <<"NL">>
        \o Attr("acl", Str("private"))
        \o Close

\* README.md:283
GcpFunction ==
    Open("resource_google_cloud_function_f")
        \o Attr("name", Str("F"))
        \o Attr("source_archive_bucket", <<"google_storage_bucket.b.name">>)
        \o Attr("source_repository", Str("repo"))
        \o Close

\* README.md:262
AzureFunction ==
    Open("resource_azurerm_function_app_f")
        \o Attr("name", Str("F"))
        \o <<"SP", "SP", "app_settings", "SP", "EQ", "SP", "LB", "NL">>
        \o <<"SP", "SP">> \o Attr("WEBSITE_RUN_FROM_PACKAGE", Str("1"))
        \o <<"SP", "SP">> \o Attr("FOO", Str("bar"))
        \o <<"SP", "SP", "RB", "NL">>
        \o Close

\* a run of blank lines
BlankLines == <<"NL", "NL", "SP", "SP", "NL">>

\* an interpolation the generator cut off, with lines before the next "}"
OpenInterpolation ==
    <<"locals", "SP", "LB", "NL">>
        \o Attr("a", <<"Q", "DOL", "LB", "var.x">>)
        \o Attr("b", Str("y"))
        \o Close

\* an interpolation the generator cut off, with blank lines after it
OpenInterpolationBlank ==
    <<"locals", "SP", "LB", "NL">>
        \o Attr("a", <<"Q", "DOL", "LB", "var.x">>)
        \o <<"NL", "NL", "NL">>
        \o Attr("b", <<"Q", "DOL", "LB", "var.y", "RB", "Q">>)
        \o Close

\* README.md:530
OpenPathModule ==
    <<"locals", "SP", "LB", "NL">>
        \o Attr("p", <<"Q", "DOL", "LB", "path.module">>)
        \o Close

\* two declarations with three blank lines between them
SpacedBuckets == Bucket \o BlankLines \o Bucket

\* README.md:262 and 505: an application-insights key given as a reference, and a
\* setting written without spaces around "="
AzureInsights ==
    Open("resource_azurerm_function_app_f")
        \o Attr("name", Str("F"))
        \o <<"SP", "SP", "app_settings", "SP", "EQ", "SP", "LB", "NL">>
        \o <<"SP", "SP">> \o Attr("APPINSIGHTS_INSTRUMENTATIONKEY",
                                  <<"azurerm_application_insights.ai.instrumentation_key">>)
        \o <<"SP", "SP", "SP", "SP", "FOO", "EQ", "Q", "bar", "Q", "NL">>
        \o <<"SP", "SP", "RB", "NL">>
        \o Close

\* README.md:283: a function with a map of variables before its entry point
GcpNested ==
    Open("resource_google_cloud_function_f")
        \o Attr("name", Str("F"))
        \o <<"SP", "SP", "build_environment_variables", "SP", "EQ", "SP", "LB", "NL">>
        \o <<"SP", "SP">> \o Attr("K", Str("v"))
        \o <<"SP", "SP", "RB", "NL">>
        \o Attr("entry_point", Str("run"))
        \o Close

\* a lambda in a runtime that is neither node nor python, without source
LambdaGo ==
    Open("resource_aws_lambda_function_g")
        \o Attr("function_name", Str("G"))
        \o Attr("handler", Str("app.main"))
        \o Attr("runtime", Str("go1.x"))
        \o Close

Fragments ==
    {LocalFilePlain, ArchivePlain, LocalFilePlain \o ArchivePlain, LocalFileHeredoc,
     LocalFileOpen, LambdaFromArchive, LambdaNested, LambdaInline, LambdaHeredoc,
     LambdaOpen, Bucket, GcpFunction, AzureFunction, BlankLines, OpenInterpolation,
     OpenPathModule, SpacedBuckets, AzureInsights, GcpNested, LambdaGo,
     OpenInterpolationBlank, BucketSpaced}

RECURSIVE TextsOf(_)
TextsOf(n) ==
    IF n = 0 THEN {<<>>}
    ELSE LET shorter == TextsOf(n - 1)
         IN shorter \cup {s \o f : s \in shorter, f \in Fragments}

Texts == TextsOf(MaxFrags)

----------------------------------------------------------------------------
(* The clean-up of one generated text, stage by stage *)

\* let lastTfFilePath = '': the empty path; the paths of the files written
\* are 1, 2, ... in the order of getUniqueTfFilePath's calls
NoPath == 0

PipeInit ==
    /\ provider \in supportedProviders
    /\ input \in Texts
    /\ text = input
    /\ stage = "generated"
    /\ lastGeneratedCode = <<>>
    /\ lastTfFilePath = NoPath
    /\ files = <<>>
    /\ reqs = <<>>

\* README.md:382-396
RunGenericCleanups ==
    /\ stage = "generated"
    /\ text' = GenericCleanups(text)
    /\ stage' = "cleaned"
    /\ UNCHANGED <<provider, input, srvVars>>

\* README.md:398-525
RunProviderRewrite ==
    /\ stage = "cleaned"
    /\ text' = ProviderRewrite(text, provider)
    /\ stage' = "rewritten"
    /\ UNCHANGED <<provider, input, srvVars>>

\* README.md:527-540
RunSyntaxRepair ==
    /\ stage = "rewritten"
    /\ text' = RepairSyntax(text)
    /\ stage' = "repaired"
    /\ UNCHANGED <<provider, input, srvVars>>

\* README.md:380-540 run on the text it produced
RunPipelineAgain ==
    /\ stage = "repaired"
    /\ input' = text
    /\ text' = Sanitize(text, provider)
    /\ stage' = "resubmitted"
    /\ UNCHANGED <<provider, srvVars>>

\* README.md:527-540 run on the text it produced
RunSyntaxRepairAgain ==
    /\ stage = "repaired"
    /\ input' = text
    /\ text' = RepairSyntax(text)
    /\ stage' = "repairedAgain"
    /\ UNCHANGED <<provider, srvVars>>

\* README.md:527-540 run on the generated text as it is
RunSyntaxRepairAlone ==
    /\ stage = "generated"
    /\ text' = RepairSyntax(text)
    /\ stage' = "repairedAlone"
    /\ UNCHANGED <<provider, input, srvVars>>

PipeNext ==
    \/ RunGenericCleanups
    \/ RunProviderRewrite
    \/ RunSyntaxRepair
    \/ RunPipelineAgain
    \/ RunSyntaxRepairAgain
    \/ RunSyntaxRepairAlone

PipeSpec == PipeInit /\ [][PipeNext]_vars

----------------------------------------------------------------------------
(* The server: /upload, /edit, /lint and /estimate-cost, README.md:325-655 *)
(* A handler runs without interruption up to its next await; each action   *)
(* below is one such run.                                                   *)

MaxReqs == 2

\* String.prototype.toLowerCase on the identifiers a request may carry
ToLowerCase(s) ==
    CASE s = "AWS" -> "aws"
      [] s = "GCP" -> "gcp"
      [] s = "Unknown" -> "unknown"
      [] OTHER -> s

\* what the diagram extractor may answer (README.md:184-200): text that is
\* not JSON, with or without the substring '"error":', the error object, or
\* an object whose cloudProvider is missing (""), "Unknown", a supported
\* provider or another name
ExtractorResponses ==
    {[json |-> "garbage", error |-> e, cloudProvider |-> ""] : e \in BOOLEAN}
        \cup {[json |-> "object", error |-> TRUE, cloudProvider |-> ""]}
        \cup {[json |-> "object", error |-> FALSE, cloudProvider |-> c] :
                  c \in {"", "Unknown", "AWS", "azure", "oracle"}}

\* req.query.cloudProvider, "" when the parameter is missing
QueryValues == {"", "aws", "GCP", "oracle"}

\* the texts the generator and the editor may return; in the last one every
\* stage of the clean-up has something to do
GenTexts == {<<>>, Bucket, LocalFilePlain \o LambdaNested}

EditTexts == {<<>>, <<"edited">>}

\* the detection without the test of the query parameter against
\* supportedProviders
ResolveProviderUnchecked(detected, query) ==
    LET cloudProvider == IF detected # "" THEN ToLowerCase(detected) ELSE "unknown"
        userProvidedProvider == IF query # "" THEN ToLowerCase(query) ELSE ""
    IN IF cloudProvider = "unknown" \/ cloudProvider \notin supportedProviders
       THEN IF userProvidedProvider # ""
            THEN [cloudProvider |-> userProvidedProvider, ok |-> TRUE]
            ELSE [cloudProvider |-> cloudProvider, ok |-> FALSE]
       ELSE [cloudProvider |-> cloudProvider, ok |-> TRUE]

\* the detection with a supported query parameter taken before the
\* extractor's value
ResolveProviderQueryFirst(detected, query) ==
    LET cloudProvider == IF detected # "" THEN ToLowerCase(detected) ELSE "unknown"
        userProvidedProvider == IF query # "" THEN ToLowerCase(query) ELSE ""
    IN IF userProvidedProvider \in supportedProviders
       THEN [cloudProvider |-> userProvidedProvider, ok |-> TRUE]
       ELSE [cloudProvider |-> cloudProvider, ok |-> cloudProvider \in supportedProviders]

\* Cloud provider detection, README.md:349-371: the provider to generate
\* for, and whether the request goes on (it is answered 400 otherwise)
ResolveProvider(detected, query) ==
    LET cloudProvider == IF detected # "" THEN ToLowerCase(detected) ELSE "unknown"
        userProvidedProvider == IF query # "" THEN ToLowerCase(query) ELSE ""
    IN IF cloudProvider = "unknown" \/ cloudProvider \notin supportedProviders
       THEN IF userProvidedProvider # "" /\ userProvidedProvider \in supportedProviders
            THEN [cloudProvider |-> userProvidedProvider, ok |-> TRUE]
            ELSE [cloudProvider |-> cloudProvider, ok |-> FALSE]
       ELSE [cloudProvider |-> cloudProvider, ok |-> TRUE]

Request(kind, pc, query) ==
    [kind |-> kind, pc |-> pc, query |-> query, cloudProvider |-> "",
     base |-> <<>>, status |-> 0, body |-> <<>>]

Answer(r, status, body) ==
    [reqs EXCEPT ![r].pc = "done", ![r].status = status, ![r].body = body]

Init ==
    /\ lastGeneratedCode = <<>>
    /\ lastTfFilePath = NoPath
    /\ files = <<>>
    /\ reqs = <<>>
    /\ provider = "aws"
    /\ input = <<>>
    /\ text = <<>>
    /\ stage = "idle"

\* README.md:326-330: the request arrives and the extractor is called
UploadReceive(query) ==
    /\ Len(reqs) < MaxReqs
    /\ reqs' = Append(reqs, Request("upload", "extracting", query))
    /\ UNCHANGED <<lastGeneratedCode, lastTfFilePath, files, pipeVars>>

\* README.md:330 and 561-564: the extractor fails
UploadExtractFails(r) ==
    /\ reqs[r].kind = "upload" /\ reqs[r].pc = "extracting"
    /\ reqs' = Answer(r, 500, <<>>)
    /\ UNCHANGED <<lastGeneratedCode, lastTfFilePath, files, pipeVars>>

\* README.md:333-377: the extractor's answer is parsed, the provider is
\* resolved, and the request is answered with an error or the generator is
\* called
UploadExtracted(r, resp) ==
    /\ reqs[r].kind = "upload" /\ reqs[r].pc = "extracting"
    /\ IF resp.json = "garbage"
       THEN reqs' = Answer(r, IF resp.error THEN 400 ELSE 500, <<>>)
       ELSE LET res == ResolveProvider(resp.cloudProvider, reqs[r].query)
            IN IF res.ok
               THEN reqs' = [reqs EXCEPT ![r].pc = "generating",
                                         ![r].cloudProvider = res.cloudProvider]
               ELSE reqs' = [Answer(r, 400, <<>>) EXCEPT
                                ![r].cloudProvider = res.cloudProvider]
    /\ UNCHANGED <<lastGeneratedCode, lastTfFilePath, files, pipeVars>>

\* README.md:377 and 561-564: the generator fails
UploadGenerateFails(r) ==
    /\ reqs[r].kind = "upload" /\ reqs[r].pc = "generating"
    /\ reqs' = Answer(r, 500, <<>>)
    /\ UNCHANGED <<lastGeneratedCode, lastTfFilePath, files, pipeVars>>

\* the clean-up working on a buffer shared by the requests: the text stored
\* last is cleaned again together with the generated one
UploadGeneratedShared(r, terraformCode) ==
    /\ reqs[r].kind = "upload" /\ reqs[r].pc = "generating"
    /\ LET cleanedTerraform ==
               Sanitize(lastGeneratedCode \o terraformCode, reqs[r].cloudProvider)
       IN /\ files' = Append(files, cleanedTerraform)
          /\ lastGeneratedCode' = cleanedTerraform
          /\ lastTfFilePath' = Len(files) + 1
          /\ reqs' = [Answer(r, 200, cleanedTerraform) EXCEPT ![r].base = terraformCode]
    /\ UNCHANGED pipeVars

\* README.md:377-560: the generated text is cleaned, written to a new file
\* and stored, and the request is answered with it
UploadGenerated(r, terraformCode) ==
    /\ reqs[r].kind = "upload" /\ reqs[r].pc = "generating"
    /\ LET cleanedTerraform == Sanitize(terraformCode, reqs[r].cloudProvider)
       IN /\ files' = Append(files, cleanedTerraform)
          /\ lastGeneratedCode' = cleanedTerraform
          /\ lastTfFilePath' = Len(files) + 1
          /\ reqs' = [Answer(r, 200, cleanedTerraform) EXCEPT ![r].base = terraformCode]
    /\ UNCHANGED pipeVars

\* README.md:542-554 and 561-564: a write fails after the clean-up, before
\* (written FALSE) or after (written TRUE) the new .tf file is on disk; the
\* variables are not set and the request is answered 500
UploadWriteFails(r, terraformCode, written) ==
    /\ reqs[r].kind = "upload" /\ reqs[r].pc = "generating"
    /\ files' = IF written
                THEN Append(files, Sanitize(terraformCode, reqs[r].cloudProvider))
                ELSE files
    /\ reqs' = Answer(r, 500, <<>>)
    /\ UNCHANGED <<lastGeneratedCode, lastTfFilePath, pipeVars>>

\* README.md:568-571: the editor is called with the code stored now
EditReceive ==
    /\ Len(reqs) < MaxReqs
    /\ reqs' = Append(reqs, [Request("edit", "editing", "") EXCEPT
                                 !.base = lastGeneratedCode])
    /\ UNCHANGED <<lastGeneratedCode, lastTfFilePath, files, pipeVars>>

\* README.md:571-579: the editor's answer is stored and written
EditDone(r, updatedCode) ==
    /\ reqs[r].kind = "edit" /\ reqs[r].pc = "editing"
    /\ lastGeneratedCode' = updatedCode
    /\ files' = IF lastTfFilePath # NoPath
                THEN [files EXCEPT ![lastTfFilePath] = updatedCode]
                ELSE files
    /\ reqs' = Answer(r, 200, updatedCode)
    /\ UNCHANGED <<lastTfFilePath, pipeVars>>

\* README.md:572-575 and 580-583: the editor's answer is stored, then the
\* write to the file fails and the request is answered 500
EditWriteFails(r, updatedCode) ==
    /\ reqs[r].kind = "edit" /\ reqs[r].pc = "editing"
    /\ lastTfFilePath # NoPath
    /\ lastGeneratedCode' = updatedCode
    /\ reqs' = Answer(r, 500, <<>>)
    /\ UNCHANGED <<lastTfFilePath, files, pipeVars>>

\* README.md:580-583
EditFails(r) ==
    /\ reqs[r].kind = "edit" /\ reqs[r].pc = "editing"
    /\ reqs' = Answer(r, 500, <<>>)
    /\ UNCHANGED <<lastGeneratedCode, lastTfFilePath, files, pipeVars>>

\* README.md:587-601 and 625-642: without a file the request is answered
\* 400, otherwise the tools are started in the file's directory
ToolReceive(kind) ==
    /\ Len(reqs) < MaxReqs
    /\ reqs' = IF lastTfFilePath = NoPath
               THEN Append(reqs, [Request(kind, "done", "") EXCEPT !.status = 400])
               ELSE Append(reqs, Request(kind, "running", ""))
    /\ UNCHANGED <<lastGeneratedCode, lastTfFilePath, files, pipeVars>>

\* README.md:601-621 and 642-654: the tools end, well or not
ToolDone(r, status) ==
    /\ reqs[r].kind \in {"lint", "estimate"} /\ reqs[r].pc = "running"
    /\ reqs' = Answer(r, status, <<>>)
    /\ UNCHANGED <<lastGeneratedCode, lastTfFilePath, files, pipeVars>>

Next ==
    \/ \E q \in QueryValues : UploadReceive(q)
    \/ \E r \in DOMAIN reqs : UploadExtractFails(r)
    \/ \E r \in DOMAIN reqs : \E resp \in ExtractorResponses : UploadExtracted(r, resp)
    \/ \E r \in DOMAIN reqs : UploadGenerateFails(r)
    \/ \E r \in DOMAIN reqs : \E t \in GenTexts : UploadGenerated(r, t)
    \/ \E r \in DOMAIN reqs : \E t \in GenTexts : \E w \in BOOLEAN :
           UploadWriteFails(r, t, w)
    \/ EditReceive
    \/ \E r \in DOMAIN reqs : \E t \in EditTexts : EditDone(r, t)
    \/ \E r \in DOMAIN reqs : \E t \in EditTexts : EditWriteFails(r, t)
    \/ \E r \in DOMAIN reqs : EditFails(r)
    \/ \E k \in {"lint", "estimate"} : ToolReceive(k)
    \/ \E r \in DOMAIN reqs : \E st \in {200, 500} : ToolDone(r, st)

Spec == Init /\ [][Next]_vars

----------------------------------------------------------------------------
(* What the properties below read from a text *)

\* the lexemes that occur in t
Lexemes(t) == {t[i] : i \in 1..Len(t)}

\* how many positions of t[i..j] hold a lexeme of the set S
CountIn(t, S, i, j) == Cardinality({k \in i..j : k <= Len(t) /\ t[k] \in S})

ArtifactHeaders == LocalFileHeaders \cup ArchiveFileHeaders

\* the words that open a heredoc, and the word that ends each
HeredocStarts == {"<<EOT", "<<EOF"}

Terminator == ("<<EOT" :> "EOT") @@ ("<<EOF" :> "EOF")

\* the quote that closes the string opened at s: the next one that no
\* backslash precedes, 0 when there is none
ClosingQuote(t, s) == MinOf({j \in (s + 1)..Len(t) : t[j] = "Q" /\ t[j - 1] # "BS"})

\* the last position of the string or heredoc literal that starts at s; a
\* literal that is not closed runs to the end of the text
LiteralEnd(t, s) ==
    OrElse(IF t[s] = "Q" THEN ClosingQuote(t, s)
           ELSE IndexFrom(t, Terminator[t[s]], s + 1),
           Len(t))

\* the opening braces of t[i..j] less its closing braces
Surplus(t, i, j) == CountIn(t, {"LB"}, i, j) - CountIn(t, {"RB"}, i, j)

\* the opening braces less the closing braces of t from position i on,
\* outside quoted strings and heredocs; s is the start of the next literal
RECURSIVE OpenBraces(_, _)
OpenBracesTo(t, i, s) ==
    IF s = 0 THEN Surplus(t, i, Len(t))
    ELSE Surplus(t, i, s - 1) + OpenBraces(t, LiteralEnd(t, s) + 1)

OpenBraces(t, i) ==
    OpenBracesTo(t, i, MinOf({q \in i..Len(t) : t[q] = "Q" \/ t[q] \in HeredocStarts}))

\* as many "{" as "}" outside quoted strings and heredocs
Balanced(t) == OpenBraces(t, 1) = 0

\* the closing brace that matches the opening brace at position o, 0 when
\* there is none
MatchingBrace(t, o) ==
    MinOf({j \in (o + 1)..Len(t) : t[j] = "RB" /\ OpenBraces(Sub(t, o, j), 1) = 0})

BalancedBodyEnd(t, o) == IF Is(t, o, "LB") THEN MatchingBrace(t, o) ELSE 0

\* the closing brace of the declaration whose header of hdrs stands at
\* position i, 0 when no such declaration starts at i or it is not closed
BalancedBlockEnd(t, hdrs, i) ==
    IF t[i] \in hdrs THEN BalancedBodyEnd(t, SkipSpace(t, i + 1)) ELSE 0

\* t without its declarations of hdrs, each from its header to the closing
\* brace that matches its opening brace
RemoveBalanced(t, hdrs) ==
    ReplaceAll(t, [q \in 1..Len(t) |-> BalancedBlockEnd(t, hdrs, q)], Always(t, <<>>))

\* every declaration of hdrs in t has its closing brace
AllTerminated(t, hdrs) ==
    \A i \in 1..Len(t) : t[i] \in hdrs => BalancedBlockEnd(t, hdrs, i) > 0

\* how many attributes NAME = ... t holds
AttrCount(t, name) ==
    Cardinality({k \in 1..Len(t) : t[k] = name /\ Is(t, SkipSpace(t, k + 1), "EQ")})

\* the declaration of hdrs that starts at position h of t, to its closing
\* brace or to the end of t; the empty text when h is 0
BlockAt(t, hdrs, h) ==
    IF h = 0 THEN <<>> ELSE Sub(t, h, OrElse(BalancedBlockEnd(t, hdrs, h), Len(t)))

\* the first aws_lambda_function declaration of t
LambdaBlockOf(t) ==
    BlockAt(t, LambdaHeaders, MinOf({q \in 1..Len(t) : t[q] \in LambdaHeaders}))

\* the value that starts at position k of b: a literal, or the rest of the line
ValueAt(b, k) ==
    IF k = 0 \/ k > Len(b) THEN <<>>
    ELSE IF b[k] = "Q" \/ b[k] \in HeredocStarts THEN Sub(b, k, LiteralEnd(b, k))
    ELSE Sub(b, k, LineEnd(b, k) - 1)

\* the value of the first source_code attribute of b
SourceCodeValue(b) ==
    ValueAt(b, AssignAt(b, "source_code",
                        MinOf({q \in 1..Len(b) : AssignAt(b, "source_code", q) > 0})))

\* the expressions that refer to the declaration with a given header
ReferencesTo ==
    ("resource_local_file_a" :> {"local_file.a.filename"})
        @@ ("resource_local_file_b" :> {"local_file.b.filename"})
        @@ ("data_archive_file_z" :>
                {"data.archive_file.z.output_path",
                 "data.archive_file.z.output_base64sha256"})

\* the declarations of Fragments that are closed
ClosedDeclarations ==
    {LocalFilePlain, ArchivePlain, LocalFileHeredoc, LambdaFromArchive, LambdaNested,
     LambdaInline, LambdaHeredoc, Bucket, GcpFunction, AzureFunction}

----------------------------------------------------------------------------
(* Properties *)

\* C1: for every supported provider and every input text, the whole
\* clean-up run on its own output gives that output back unchanged.
C1_PipelineIdempotent == stage = "resubmitted" => text = input

\* C2: an /upload request whose resolved provider is not aws, azure or gcp
\* is answered 400 before the generator or any clean-up runs for it, and the
\* step that rejects it writes no file and leaves lastGeneratedCode and
\* lastTfFilePath as they were.
Rejected(r) ==
    /\ reqs[r].kind = "upload"
    /\ reqs[r].cloudProvider # ""
    /\ reqs[r].cloudProvider \notin supportedProviders

C2_UnsupportedProviderRejected ==
    /\ [](\A r \in DOMAIN reqs :
              Rejected(r) =>
                  /\ reqs[r].pc = "done"
                  /\ reqs[r].status = 400
                  /\ reqs[r].base = <<>>
                  /\ reqs[r].body = <<>>)
    /\ [][(\E r \in DOMAIN reqs : ~Rejected(r) /\ Rejected(r)')
              => UNCHANGED <<lastGeneratedCode, lastTfFilePath, files>>]_vars

\* C2 happens: an upload is rejected for its provider after another upload
\* has written a file
C2_Witness ==
    \E r \in DOMAIN reqs :
        Rejected(r) /\ reqs[r].status = 400 /\ lastTfFilePath # NoPath /\ files # <<>>

\* C3 as stated: for any input that holds a local_file or archive_file
\* declaration, the output holds no local_file and no archive_file header.
C3_NoArtifactHeader ==
    stage = "repaired" /\ Lexemes(input) \cap ArtifactHeaders # {}
        => Lexemes(text) \cap ArtifactHeaders = {}

\* C3 amended: for any input whose local_file and archive_file declarations
\* are all closed (each opening brace has its matching closing brace), the
\* output holds no local_file and no archive_file header.
C3_NoClosedArtifactHeader ==
    stage = "repaired" /\ Lexemes(input) \cap ArtifactHeaders # {}
                       /\ AllTerminated(input, ArtifactHeaders)
        => Lexemes(text) \cap ArtifactHeaders = {}

\* C3 happens: an input with a closed local_file and a closed archive_file
\* declaration has been cleaned
C3_Witness ==
    /\ stage = "repaired"
    /\ Lexemes(input) \cap LocalFileHeaders # {}
    /\ Lexemes(input) \cap ArchiveFileHeaders # {}
    /\ AllTerminated(input, ArtifactHeaders)
    /\ Lexemes(text) \cap ArtifactHeaders = {}

\* C4: when the input has as many "{" as "}" outside quoted strings and
\* heredocs, so has the output.
C4_BraceBalancePreserved == stage = "repaired" /\ Balanced(input) => Balanced(text)

\* C5: the removal of the local_file and archive_file declarations takes
\* each whole block away, from its header to the closing brace that matches
\* its opening brace, and nothing else.
C5_WholeBlockRemoved ==
    stage = "cleaned" /\ AllTerminated(input, ArtifactHeaders)
        => text = RemoveSourceCodeHash(
                      RemoveBalanced(RemoveBalanced(input, LocalFileHeaders),
                                     ArchiveFileHeaders))

\* C6: once a local_file or archive_file declaration has been removed, the
\* output holds no expression that refers to it.
C6_NoDanglingReference ==
    stage = "repaired"
        => \A h \in ArtifactHeaders :
               h \in Lexemes(input) /\ h \notin Lexemes(text)
                   => Lexemes(text) \cap ReferencesTo[h] = {}

\* C7: for aws and an input with one local_file, one archive_file and one
\* aws_lambda_function declaration that has a filename attribute, the output
\* has no local_file or archive_file declaration and its lambda block has
\* no filename, one source_code and one handler attribute.
ScenarioA ==
    /\ provider = "aws"
    /\ CountIn(input, LocalFileHeaders, 1, Len(input)) = 1
    /\ CountIn(input, ArchiveFileHeaders, 1, Len(input)) = 1
    /\ CountIn(input, LambdaHeaders, 1, Len(input)) = 1
    /\ AllTerminated(input, ArtifactHeaders \cup LambdaHeaders)
    /\ AttrCount(LambdaBlockOf(input), "filename") = 1

C7_ScenarioA ==
    stage = "repaired" /\ ScenarioA
        => /\ Lexemes(text) \cap ArtifactHeaders = {}
           /\ AttrCount(LambdaBlockOf(text), "filename") = 0
           /\ AttrCount(LambdaBlockOf(text), "source_code") = 1
           /\ AttrCount(LambdaBlockOf(text), "handler") = 1

\* C8: for aws, a lambda block that already has a source_code attribute, as
\* a quoted string or as a heredoc, leaves the provider rewrite with that
\* value and with one source_code attribute.
C8_SourceCodeKept ==
    stage = "rewritten" /\ provider = "aws"
                        /\ CountIn(input, LambdaHeaders, 1, Len(input)) = 1
                        /\ AllTerminated(input, LambdaHeaders)
                        /\ AttrCount(LambdaBlockOf(input), "source_code") = 1
        => /\ AttrCount(LambdaBlockOf(text), "source_code") = 1
           /\ SourceCodeValue(LambdaBlockOf(text)) = SourceCodeValue(LambdaBlockOf(input))

\* C9: for aws and an input made of a lambda declaration without its closing
\* brace and a closed declaration after it, the output is the unclosed
\* declaration as it was followed by what the clean-up makes of the
\* declaration after it alone.
C9_UnterminatedLeftVerbatim ==
    stage = "repaired" /\ provider = "aws"
        => \A rest \in ClosedDeclarations :
               input = LambdaOpen \o rest
                   => text = RepairSyntax(
                                 LambdaOpen \o ProviderRewrite(GenericCleanups(rest), provider))

\* C10: the syntax repair run on its own output gives that output back
\* unchanged.
C10_RepairIdempotent == stage = "repairedAgain" => text = input

\* the "${" at position i of t has its "}" before the end of its line
ClosedOnLine(t, i) == OnLine(IndexFrom(t, "RB", i + 2), LineEnd(t, i + 2)) > 0

\* the positions of t where an interpolation opens
Interpolations(t) == {i \in 1..(Len(t) - 1) : t[i] = "DOL" /\ t[i + 1] = "LB"}

\* t with a "}" put at the end of the line of each "${" of opens, the last
\* one first
RECURSIVE CloseAll(_, _)
CloseLast(t, opens, i) ==
    CloseAll(InsertAfter(t, LineEnd(t, i + 2) - 1, <<"RB">>), opens \ {i})

CloseAll(t, opens) == IF opens = {} THEN t ELSE CloseLast(t, opens, MaxOf(opens))

\* t with every interpolation that its line leaves open closed at the end
\* of that line
ClosedAtLineEnds(t) ==
    CloseAll(t, {i \in Interpolations(t) : ~ClosedOnLine(t, i)})

\* C11: the repair closes every "${" that its line leaves open at the end
\* of that same line: after the repair no interpolation runs over a line
\* feed, and the text is the one with those braces added, its blank lines
\* collapsed and its ends trimmed.
C11_ClosedOnSameLine ==
    stage = "repairedAlone"
        => /\ \A i \in Interpolations(text) : ClosedOnLine(text, i)
           /\ text = Trim(CollapseBlankLines(ClosedAtLineEnds(input)))

\* the line feeds of the white run of t that starts at position i
BreaksFrom(t, i) == CountIn(t, {"NL"}, i, SkipSpace(t, i) - 1)

\* the positions of t after which two or more blank lines follow, with text
\* before and after them
BlankRunsOf(t) ==
    {i \in 1..(Len(t) - 1) :
        /\ ~IsSpace(t[i])
        /\ t[i + 1] = "NL"
        /\ SkipSpace(t, i + 1) <= Len(t)
        /\ BreaksFrom(t, i + 1) >= 3}

\* the lexemes w stand in t, one after the other
Occurs(t, w) == \E j \in 1..(Len(t) - Len(w) + 1) : Sub(t, j, j + Len(w) - 1) = w

\* no three line feeds of t are separated by white space only
NoThreeBreaks(t) == \A i \in 1..Len(t) : t[i] = "NL" => BreaksFrom(t, i) <= 2

\* t neither starts nor ends with white space
IsTrimmed(t) == t = <<>> \/ (~IsSpace(t[1]) /\ ~IsSpace(t[Len(t)]))

\* C12: in the output every run of two or more blank lines of the input is
\* one blank line (no three line feeds are separated by white space only),
\* and the output neither starts nor ends with white space.
C12_BlankLinesCollapsed ==
    /\ stage \in {"repaired", "repairedAlone"} => NoThreeBreaks(text) /\ IsTrimmed(text)
    /\ stage = "repairedAlone"
           => \A i \in BlankRunsOf(input) :
                  Occurs(text, <<input[i], "NL", "NL", input[SkipSpace(input, i + 1)]>>)

\* the part of C12 that is about the output alone
C12_OutputShape ==
    stage \in {"repaired", "repairedAlone"} => NoThreeBreaks(text) /\ IsTrimmed(text)

\* the application settings the azure rewrite strips, README.md:503-505
StrippedSettings ==
    {"WEBSITE_RUN_FROM_PACKAGE", "FUNCTIONS_WORKER_RUNTIME", "APPINSIGHTS_INSTRUMENTATIONKEY"}

\* the positions of t where an app_settings block starts inside a closed
\* azurerm_function_app declaration
AppSettingsAt(t) ==
    {a \in 1..Len(t) :
        /\ Is(t, AssignAt(t, "app_settings", a), "LB")
        /\ \E h \in 1..(a - 1) : BalancedBlockEnd(t, AzureHeaders, h) > a}

\* the names assigned between the braces at o and c
NamesBetween(t, o, c) == {t[k] : k \in {q \in (o + 1)..(c - 1) : ~IsSpace(t[q]) /\ AssignAt(t, t[q], q) > 0}}

\* the names of the settings of the app_settings block that starts at a
SettingNames(t, a) ==
    NamesBetween(t, AssignAt(t, "app_settings", a),
                 MatchingBrace(t, AssignAt(t, "app_settings", a)))

\* the settings of all app_settings blocks of t
AllSettingNames(t) == UNION {SettingNames(t, a) : a \in AppSettingsAt(t)}

\* C13: for azure, the app_settings block of an azurerm_function_app
\* declaration is removed if and only if it holds no setting but the three
\* stripped ones; a block with another setting is kept with that setting.
C13_AppSettingsKeptIffSettingRemains ==
    stage = "rewritten" /\ provider = "azure" /\ Cardinality(AppSettingsAt(input)) = 1
        => IF AllSettingNames(input) \subseteq StrippedSettings
           THEN AppSettingsAt(text) = {}
           ELSE /\ Cardinality(AppSettingsAt(text)) = 1
                /\ AllSettingNames(text) = AllSettingNames(input) \ StrippedSettings

\* the positions of t where one of the stripped settings is assigned inside
\* a closed azurerm_function_app declaration
StrippedAt(t) ==
    {k \in 1..Len(t) :
        /\ t[k] \in StrippedSettings
        /\ AssignAt(t, t[k], k) > 0
        /\ \E h \in 1..(k - 1) : BalancedBlockEnd(t, AzureHeaders, h) > k}

\* the words of the value assigned at position k of t
ValueWords(t, k) == Lexemes(ValueAt(t, AssignAt(t, t[k], k))) \ {"Q"}

\* C14: for azure, each WEBSITE_RUN_FROM_PACKAGE, FUNCTIONS_WORKER_RUNTIME
\* and APPINSIGHTS_INSTRUMENTATIONKEY entry of an azurerm_function_app
\* declaration is removed whole, the key and the value, whether the value is
\* a quoted string or a reference: nothing of the value stays in the output.
C14_SettingRemovedWhole ==
    stage = "rewritten" /\ provider = "azure"
        => \A k \in StrippedAt(input) :
               /\ input[k] \notin Lexemes(text)
               /\ \A w \in ValueWords(input, k) :
                      CountIn(text, {w}, 1, Len(text)) < CountIn(input, {w}, 1, Len(input))

\* the source attributes the gcp rewrite strips, README.md:469-473
GcpStripped ==
    {"source_repository", "build_environment_variables",
     "source_archive_bucket", "source_archive_object"}

\* C15: for gcp, a text with one google_cloud_function declaration, in which
\* that declaration and every local_file and archive_file one is closed, leaves the provider rewrite with one source_archive_url and one
\* entry_point attribute, none of them doubled, and with no
\* source_repository, build_environment_variables, source_archive_bucket or
\* source_archive_object attribute.
C15_GcpAttributesOnce ==
    stage = "rewritten" /\ provider = "gcp"
                        /\ CountIn(input, GcpHeaders, 1, Len(input)) = 1
                        /\ AllTerminated(input, GcpHeaders \cup ArtifactHeaders)
        => /\ AttrCount(text, "source_archive_url") = 1
           /\ AttrCount(text, "entry_point") = 1
           /\ \A name \in GcpStripped : AttrCount(text, name) = 0

\* the attributes the provider rewrite adds to a serverless declaration
Synthesized(p) ==
    CASE p = "aws" -> {"source_code", "handler"}
      [] p = "gcp" -> {"source_archive_url", "entry_point"}
      [] OTHER -> {}

\* the header of the first declaration of hdrs in t, 0 when there is none
HeaderOf(t, hdrs) == MinOf({q \in 1..Len(t) : t[q] \in hdrs})

\* the attribute at position k of t starts its line after the content
\* indentation of a declaration at column 0
OnOwnLine(t, k) == k > 3 /\ Sub(t, k - 3, k - 1) = <<"NL">> \o blockContentIndent

\* the line after the quoted value that ends at position ve starts with the
\* closing brace at e
BraceOnNextLine(t, ve, e) == Is(t, ve + 1, "NL") /\ ve + 2 = e

\* the position of the attribute name on the line after the quoted value
\* that ends at position ve
NextAttr(ve) == ve + 2 + Len(blockContentIndent)

\* the last position of the quoted value of the attribute at position k
QuotedValueEnd(t, k) == LiteralEnd(t, AssignAt(t, t[k], k))

\* the attribute at position k of t stands on its own line right before the
\* closing brace at e, with at most other attributes of names between
PlacedBeforeBrace(t, k, e, names) ==
    /\ OnOwnLine(t, k)
    /\ Is(t, AssignAt(t, t[k], k), "Q")
    /\ \/ BraceOnNextLine(t, QuotedValueEnd(t, k), e)
       \/ /\ Is(t, QuotedValueEnd(t, k) + 1, "NL")
          /\ NextAttr(QuotedValueEnd(t, k)) <= Len(t)
          /\ t[NextAttr(QuotedValueEnd(t, k))] \in names
          /\ OnOwnLine(t, NextAttr(QuotedValueEnd(t, k)))
          /\ Is(t, AssignAt(t, t[NextAttr(QuotedValueEnd(t, k))],
                            NextAttr(QuotedValueEnd(t, k))), "Q")
          /\ BraceOnNextLine(t, QuotedValueEnd(t, NextAttr(QuotedValueEnd(t, k))), e)

\* the attribute name stands before the closing brace e of the declaration
\* whose header is at h
SynthesizedInPlace(t, h, e, name, names) ==
    \E k \in h..e : t[k] = name /\ AssignAt(t, name, k) > 0
                                /\ PlacedBeforeBrace(t, k, e, names)

\* C16: for aws and gcp, each attribute the provider rewrite adds to a
\* serverless declaration stands on its own line, with the content
\* indentation of the declaration, right before the closing brace that
\* matches the opening brace of the declaration.
C16_InsertedBeforeOwnBrace ==
    stage = "rewritten" /\ provider \in {"aws", "gcp"}
        /\ CountIn(input, ServerlessHeaders(provider), 1, Len(input)) = 1
        /\ CountIn(text, ServerlessHeaders(provider), 1, Len(text)) = 1
        /\ AllTerminated(input, ServerlessHeaders(provider) \cup ArtifactHeaders)
        => \A name \in Synthesized(provider) :
               AttrCount(BlockAt(input, ServerlessHeaders(provider),
                                 HeaderOf(input, ServerlessHeaders(provider))), name) = 0
                   => SynthesizedInPlace(
                          text, HeaderOf(text, ServerlessHeaders(provider)),
                          BalancedBlockEnd(text, ServerlessHeaders(provider),
                                           HeaderOf(text, ServerlessHeaders(provider))),
                          name, Synthesized(provider))

\* the position of the first runtime attribute of b, 0 when there is none
RuntimeAttrAt(b) == MinOf({p \in 1..Len(b) : AssignAt(b, "runtime", p) > 0})

\* the word between the quotes of the value that starts at position k of b,
\* "" when no quoted value starts there
QuotedWord(b, k) == IF Is(b, k, "Q") /\ k + 1 <= Len(b) THEN b[k + 1] ELSE ""

\* the runtime the declaration b names, "" when it names none
NamedRuntime(b) == QuotedWord(b, AssignAt(b, "runtime", RuntimeAttrAt(b)))

\* the quoted value v is a handler in the language of runtime r: JavaScript
\* for node, Python for python and for no known runtime, and code rather
\* than a comment for the others
IsHandlerFor(v, r) ==
    /\ Len(v) >= 3
    /\ v[1] = "Q"
    /\ r \in NodeRuntimes => v[2] = "exports."
    /\ r \in PythonRuntimes \/ r \notin KnownRuntimes => v[2] = "def"
    /\ v[2] # "/* Placeholder code for"

\* t holds the attribute handler = "handler.handler"
HasDefaultHandler(t) ==
    \E k \in 1..Len(t) :
        ValueAt(t, AssignAt(t, "handler", k)) = <<"Q", "handler.handler", "Q">>

\* C17: for aws, the source_code added to a lambda declaration is a handler
\* in the language of the declaration's runtime (JavaScript for node, Python
\* for python and when no runtime is named, a handler for go, java and ruby
\* too), and a declaration without handler attribute gets the handler
\* "handler.handler".
C17_PlaceholderPerRuntime ==
    stage = "rewritten" /\ provider = "aws"
        /\ CountIn(input, LambdaHeaders, 1, Len(input)) = 1
        /\ CountIn(text, LambdaHeaders, 1, Len(text)) = 1
        /\ AllTerminated(input, LambdaHeaders \cup ArtifactHeaders)
        /\ AttrCount(LambdaBlockOf(input), "source_code") = 0
        => /\ IsHandlerFor(SourceCodeValue(text), NamedRuntime(LambdaBlockOf(input)))
           /\ AttrCount(LambdaBlockOf(input), "handler") = 0 => HasDefaultHandler(text)

\* the part of C17 that is about node, python and the defaults
C17_NodePythonDefaults ==
    NamedRuntime(LambdaBlockOf(input)) \notin OtherRuntimes => C17_PlaceholderPerRuntime

\* the uploads that were answered with generated code
Succeeded(r) == reqs[r].kind = "upload" /\ reqs[r].status = 200

\* the two providers that were not resolved for request r
OtherProviders(r) == supportedProviders \ {reqs[r].cloudProvider}

\* the syntax repair of the text c after the rewrite of the blocks of
\* provider p in it, and of no other blocks
RepairAfterRewrite(c, p) ==
    RepairSyntax(
        RewriteBlocksAt(c, p,
                        [q \in 1..Len(c) |-> BlockMatchEnd(c, ServerlessHeaders(p), q)]))

\* C18: the body of every successful /upload is the generator's text after
\* the generic clean-ups, then the rewrite of the resolved provider and of
\* no other, then the syntax repair, each run once and in that order.
C18_StagesInOrder ==
    \A r \in DOMAIN reqs :
        Succeeded(r)
            => /\ reqs[r].cloudProvider \in supportedProviders
               /\ reqs[r].body =
                      RepairAfterRewrite(GenericCleanups(reqs[r].base),
                                         reqs[r].cloudProvider)

\* C18 happens: the same generated text, a local_file and a lambda
\* declaration, has been cleaned for aws and for another provider, with
\* different results, neither of them the text as generated
C18_Witness ==
    \E r1, r2 \in DOMAIN reqs :
        /\ Succeeded(r1) /\ Succeeded(r2)
        /\ reqs[r1].base = LocalFilePlain \o LambdaNested
        /\ reqs[r2].base = reqs[r1].base
        /\ reqs[r1].cloudProvider = "aws"
        /\ reqs[r2].cloudProvider \in OtherProviders(r1)
        /\ reqs[r1].body # reqs[r2].body
        /\ reqs[r1].body # reqs[r1].base
        /\ reqs[r2].body # reqs[r2].base

\* the extractor's answers that are no JSON, the error object, or an object
\* without a provider or with the provider "Unknown"
UnusableResponses ==
    {resp \in ExtractorResponses :
        \/ resp.json = "garbage"
        \/ resp.error
        \/ ToLowerCase(resp.cloudProvider) \in {"", "unknown"}}

\* C19: when the extractor's answer is no JSON, is the error object or names
\* no provider, the step that reads it answers the upload with an error and
\* does not go on to the generator, whatever the query parameter is.
C19_UnusableResponseRejected ==
    [][\A r \in DOMAIN reqs : \A resp \in UnusableResponses :
           UploadExtracted(r, resp)
               => reqs'[r].pc = "done" /\ reqs'[r].status \in {400, 500}]_vars

\* C20: when the generator returns the empty text, the step that receives it
\* answers the upload with an error, writes no file and leaves
\* lastGeneratedCode and lastTfFilePath as they were.
C20_EmptyTextAborts ==
    [][\A r \in DOMAIN reqs :
           UploadGenerated(r, <<>>)
               => /\ reqs'[r].status \in {400, 500}
                  /\ UNCHANGED <<files, lastGeneratedCode, lastTfFilePath>>]_vars

\* request r is an upload at its generator call
AtGenerator(r) == reqs[r].kind = "upload" /\ reqs[r].pc = "generating"

\* C21: under any interleaving of requests, the step that ends an upload
\* with generated code stores, writes and returns the clean-up of that
\* request's own generated text for that request's own provider, whatever
\* lastGeneratedCode, lastTfFilePath and the other requests are.
C21_CleanupOfOwnText ==
    [][\A r \in DOMAIN reqs :
           AtGenerator(r) /\ reqs'[r].status = 200
               => /\ reqs'[r].base \in GenTexts
                  /\ reqs'[r].body = Sanitize(reqs'[r].base, reqs[r].cloudProvider)
                  /\ lastGeneratedCode' = reqs'[r].body
                  /\ files' = Append(files, reqs'[r].body)
                  /\ lastTfFilePath' = Len(files')]_vars

\* C21 happens: two uploads overlapped (the one received first has written
\* the second file) and got different texts, each the clean-up of its own
C21_Witness ==
    \E r1, r2 \in DOMAIN reqs :
        /\ r1 < r2
        /\ Succeeded(r1) /\ Succeeded(r2)
        /\ reqs[r1].body # reqs[r2].body
        /\ reqs[r1].body # <<>> /\ reqs[r2].body # <<>>
        /\ files = <<reqs[r2].body, reqs[r1].body>>
        /\ lastGeneratedCode = reqs[r1].body

\* the text that enters the provider rewrite
Cleaned == GenericCleanups(input)

\* what follows position e of t, as long as that
TailFrom(t, e) == Sub(t, e + 1, Len(t))

\* the last n lexemes of t
LastOf(t, n) == Sub(t, Len(t) - n + 1, Len(t))

\* after differs from before only between the header at h and the closing
\* brace at e of before; everything when the declaration at h is not closed
SameOutside(before, after, h, e) ==
    IF h = 0 \/ e = 0 THEN after = before
    ELSE /\ Len(after) >= (h - 1) + (Len(before) - e)
         /\ Sub(after, 1, h - 1) = Sub(before, 1, h - 1)
         /\ LastOf(after, Len(before) - e) = TailFrom(before, e)

\* the closing brace of the declaration of hdrs at h, 0 when h is 0
BlockEndOf(t, hdrs, h) == IF h = 0 THEN 0 ELSE BalancedBlockEnd(t, hdrs, h)

\* C22: the provider rewrite changes the text only inside the balanced
\* block of a serverless declaration of the provider: what stands before
\* the header and after the matching closing brace stays as it was, and
\* without such a block nothing changes.
C22_RewriteStaysInBlock ==
    stage = "rewritten" /\ provider \in supportedProviders
        /\ CountIn(Cleaned, ServerlessHeaders(provider), 1, Len(Cleaned)) <= 1
        => SameOutside(Cleaned, text, HeaderOf(Cleaned, ServerlessHeaders(provider)),
                       BlockEndOf(Cleaned, ServerlessHeaders(provider),
                                  HeaderOf(Cleaned, ServerlessHeaders(provider))))

\* the line of t that starts at position i, without its line feed
LineAt(t, i) == Sub(t, i, LineEnd(t, i) - 1)

\* the positions of t where a line starts that holds more than white space
LinesOf(t) ==
    {i \in 1..Len(t) : IsLineStart(t, i) /\ \E k \in i..(LineEnd(t, i) - 1) : ~IsSpace(t[k])}

\* t has the line l, indentation included
HasLine(t, l) == \E j \in LinesOf(t) : LineAt(t, j) = l

\* every "${" of t is closed on its line
AllClosedOnLine(t) == \A i \in Interpolations(t) : ClosedOnLine(t, i)

\* C23: the syntax repair leaves every line that is not blank as it was,
\* with its indentation, when no line of the input holds an unclosed "${";
\* this includes the lines after a blank line and the lines of a heredoc.
C23_LinesKept ==
    stage = "repairedAlone" /\ AllClosedOnLine(input)
        => \A i \in LinesOf(input) : HasLine(text, LineAt(input, i))

\* request r is an edit waiting for the editor
AtEditor(r) == reqs[r].kind = "edit" /\ reqs[r].pc = "editing"

\* C24: under any interleaving, the code the editor was given when a
\* completing /edit called it (the code its result is derived from) is the
\* value lastGeneratedCode holds right before the edit stores its result.
C24_EditOfCurrentCode ==
    [][\A r \in DOMAIN reqs :
           AtEditor(r) /\ reqs'[r].status = 200 => reqs[r].base = lastGeneratedCode]_vars

\* the file lastTfFilePath names holds lastGeneratedCode
FileIsCurrent == lastTfFilePath # NoPath => files[lastTfFilePath] = lastGeneratedCode

\* C25: in every reachable state, requests answered with an error included,
\* lastTfFilePath is set only if an upload has succeeded, and the file it
\* names then holds lastGeneratedCode.
C25_FileMatchesCode ==
    /\ lastTfFilePath # NoPath => \E r \in DOMAIN reqs : Succeeded(r)
    /\ FileIsCurrent

\* the part of C25 that holds: lastTfFilePath is set by successful uploads
\* only, and every step but an edit whose write fails keeps the file current
C25_UnlessEditWriteFails ==
    /\ [](lastTfFilePath # NoPath => \E r \in DOMAIN reqs : Succeeded(r))
    /\ [][FileIsCurrent /\ ~(\E r \in DOMAIN reqs : \E t \in EditTexts : EditWriteFails(r, t))
              => FileIsCurrent']_vars

\* the extractor's answers that are JSON objects
ObjectResponses == {resp \in ExtractorResponses : resp.json = "object"}

\* request r goes on to the generator, for provider p
GeneratesFor(r, p) == reqs'[r].pc = "generating" /\ reqs'[r].cloudProvider = p

\* C26: the step that resolves the provider of an upload goes on with the
\* extractor's value in lower case when that is aws, azure or gcp, whatever
\* the query parameter is; otherwise with the query parameter in lower case
\* when that is aws, azure or gcp; and otherwise it answers 400.
C26_ProviderResolution ==
    [][\A r \in DOMAIN reqs : \A resp \in ObjectResponses :
           UploadExtracted(r, resp)
               => IF ToLowerCase(resp.cloudProvider) \in supportedProviders
                  THEN GeneratesFor(r, ToLowerCase(resp.cloudProvider))
                  ELSE IF ToLowerCase(reqs[r].query) \in supportedProviders
                       THEN GeneratesFor(r, ToLowerCase(reqs[r].query))
                       ELSE reqs'[r].pc = "done" /\ reqs'[r].status = 400]_vars

\* C26 happens: one upload with an unsupported query parameter generates for
\* the provider the extractor named, and another generates for the provider
\* of its query parameter, written in upper case
C26_Witness ==
    \E r1, r2 \in DOMAIN reqs :
        /\ reqs[r1].kind = "upload" /\ reqs[r1].query = "oracle"
        /\ reqs[r1].pc = "generating" /\ reqs[r1].cloudProvider \in supportedProviders
        /\ reqs[r2].kind = "upload" /\ reqs[r2].query = "GCP"
        /\ reqs[r2].pc = "generating" /\ reqs[r2].cloudProvider = "gcp"

====
